---- MODULE Spec2Model ----
(***************************************************************************)
(* Rayleigh flow relations of gas_dynamics/rayleigh/rayleigh.py.           *)
(*                                                                         *)
(* Every function of the file is a pure function of its arguments and of   *)
(* the fluid it is handed; the only state that outlives a call is the      *)
(* module-level default fluid `air`, whose fields the caller may assign.   *)
(* The model keeps that fluid, the last call, what the call ended in, the  *)
(* calls it made to scipy's fsolve and the warnings it emitted.            *)
(*                                                                         *)
(* Numbers.  A Python float is modelled by an exact real a + b*sqrt(k)     *)
(* (a, b rationals, k a square-free integer), which is closed under every  *)
(* operation the file applies to the inputs drawn here; rounding is not    *)
(* modelled.  The outcomes Python and numpy add to the reals are kept:     *)
(* ZeroDivisionError for a scalar division by zero, a complex number for   *)
(* a negative scalar raised to a fractional power, and inf / nan for the   *)
(* same operations on the ndarray fsolve hands to its residual function.   *)
(***************************************************************************)
EXTENDS Integers, Sequences, FiniteSets, TLC

\* ------------------------------------------------------------ rationals
Abs(x) == IF x < 0 THEN -x ELSE x

RECURSIVE Gcd(_, _)
Gcd(a, b) == IF b = 0 THEN a ELSE Gcd(b, a % b)

\* The rational n/d in lowest terms with a positive denominator (d # 0).
Q(n, d) ==
  LET g == Gcd(Abs(n), Abs(d))
      s == IF d < 0 THEN -1 ELSE 1
  IN  <<(s * n) \div g, (s * d) \div g>>

QZero == <<0, 1>>
QOne == <<1, 1>>
QNeg(x) == <<-x[1], x[2]>>
QInv(x) == IF x[1] < 0 THEN <<-x[2], -x[1]>> ELSE <<x[2], x[1]>>
QSign(x) == IF x[1] > 0 THEN 1 ELSE IF x[1] < 0 THEN -1 ELSE 0

QMul(x, y) ==
  IF x[1] = 0 \/ y[1] = 0 THEN QZero
  ELSE LET g1 == Gcd(Abs(x[1]), y[2])
           g2 == Gcd(Abs(y[1]), x[2])
       IN  <<(x[1] \div g1) * (y[1] \div g2), (x[2] \div g2) * (y[2] \div g1)>>

QAdd(x, y) ==
  LET g == Gcd(x[2], y[2])
  IN  Q(x[1] * (y[2] \div g) + y[1] * (x[2] \div g), (x[2] \div g) * y[2])

QLess(x, y) == QSign(QAdd(x, QNeg(y))) < 0

RECURSIVE QPow(_, _)
QPow(x, n) == IF n = 0 THEN QOne ELSE QMul(x, QPow(x, n - 1))

\* Largest s with s*s dividing n (n >= 1): n = s*s*k with k square-free.
RECURSIVE Isqrt(_, _)
Isqrt(n, s) == IF (s + 1) * (s + 1) > n THEN s ELSE Isqrt(n, s + 1)

RECURSIVE SquareDown(_, _)
SquareDown(n, s) == IF n % (s * s) = 0 THEN s ELSE SquareDown(n, s - 1)

SquarePart(n) == SquareDown(n, Isqrt(n, 1))
SquareFree(n) == n \div (SquarePart(n) * SquarePart(n))

\* --------------------------------------------------------------- values
\* t: "num" (a + b*sqrt(k)), "inf" (sign in a), "nan", "complex" (modulus
\* b*sqrt(k) or a, on the imaginary axis up to rounding), "raise" (the call
\* ends in exc), "unsupported" (outside the modelled arithmetic; never reached).
\* nd: the value is a numpy array or numpy scalar, so numpy's arithmetic applies.
Val(t, a, b, k, nd, exc) ==
  [t |-> t, a |-> a, b |-> b, k |-> k, nd |-> nd, exc |-> exc]

Num(a, b, k, nd) ==
  IF b = QZero \/ k = 1 THEN Val("num", QAdd(a, b), QZero, 1, nd, "")
  ELSE Val("num", a, b, k, nd, "")

Float(q) == Num(q, QZero, 1, FALSE)
PyInt(n) == Float(<<n, 1>>)
NdArray(q) == Num(q, QZero, 1, TRUE)
Inf(s, nd) == Val("inf", <<s, 1>>, QZero, 1, nd, "")
NaN(nd) == Val("nan", QZero, QZero, 1, nd, "")
Complex(x) == Val("complex", x.a, x.b, x.k, x.nd, "")
Raise(exc) == Val("raise", QZero, QZero, 1, FALSE, exc)
Unsupported == Val("unsupported", QZero, QZero, 1, FALSE, "")

IsRational(x) == x.t = "num" /\ x.b = QZero
IsMonomial(x) == x.t = "num" /\ (x.a = QZero \/ x.b = QZero)
IsZero(x) == x.t = "num" /\ x.a = QZero /\ x.b = QZero
\* Sign of a monomial or of an infinity.
Sign(x) == IF x.b = QZero THEN QSign(x.a) ELSE QSign(x.b)

Neg(x) ==
  IF x.t \in {"num", "inf"} THEN [x EXCEPT !.a = QNeg(x.a), !.b = QNeg(x.b)] ELSE x

\* x + y
Add(x, y) ==
  LET nd == x.nd \/ y.nd IN
  IF x.t = "raise" THEN x
  ELSE IF y.t = "raise" THEN y
  ELSE IF x.t = "nan" \/ y.t = "nan" THEN NaN(nd)
  ELSE IF x.t = "inf" /\ y.t = "inf" THEN (IF x.a = y.a THEN Inf(x.a[1], nd) ELSE NaN(nd))
  ELSE IF x.t = "inf" /\ y.t = "num" THEN Inf(x.a[1], nd)
  ELSE IF y.t = "inf" /\ x.t = "num" THEN Inf(y.a[1], nd)
  ELSE IF x.t = "num" /\ y.t = "num" /\ (x.k = y.k \/ x.k = 1 \/ y.k = 1)
    THEN Num(QAdd(x.a, y.a), QAdd(x.b, y.b), IF x.k = 1 THEN y.k ELSE x.k, nd)
  ELSE Unsupported

\* x - y
Sub(x, y) == Add(x, Neg(y))

\* x * y
Mul(x, y) ==
  LET nd == x.nd \/ y.nd IN
  IF x.t = "raise" THEN x
  ELSE IF y.t = "raise" THEN y
  ELSE IF x.t = "nan" \/ y.t = "nan" THEN NaN(nd)
  ELSE IF x.t = "inf" /\ y.t \in {"inf", "num"} /\ IsMonomial([y EXCEPT !.t = "num"])
    THEN (IF Sign(y) = 0 THEN NaN(nd) ELSE Inf(Sign(x) * Sign(y), nd))
  ELSE IF y.t = "inf" /\ IsMonomial(x)
    THEN (IF Sign(x) = 0 THEN NaN(nd) ELSE Inf(Sign(x) * Sign(y), nd))
  ELSE IF IsRational(x) /\ y.t = "num"
    THEN Num(QMul(x.a, y.a), QMul(x.a, y.b), y.k, nd)
  ELSE IF IsRational(y) /\ x.t = "num"
    THEN Num(QMul(x.a, y.a), QMul(x.b, y.a), x.k, nd)
  ELSE IF IsMonomial(x) /\ IsMonomial(y)
    THEN LET g == Gcd(x.k, y.k)
         IN  Num(QZero, QMul(QMul(x.b, y.b), <<g, 1>>), (x.k \div g) * (y.k \div g), nd)
  ELSE Unsupported

\* 1 / y for a nonzero monomial y
Recip(y) ==
  IF y.b = QZero THEN Num(QInv(y.a), QZero, 1, y.nd)
  ELSE Num(QZero, QInv(QMul(y.b, <<y.k, 1>>)), y.k, y.nd)

\* x / y: Python raises ZeroDivisionError for a scalar division by zero;
\* numpy returns inf or nan (and warns).
Div(x, y) ==
  LET nd == x.nd \/ y.nd IN
  IF x.t = "raise" THEN x
  ELSE IF y.t = "raise" THEN y
  ELSE IF x.t = "nan" \/ y.t = "nan" THEN NaN(nd)
  ELSE IF IsZero(y)
    THEN (IF ~nd THEN Raise("ZeroDivisionError")
          ELSE IF IsZero(x) THEN NaN(nd)
          ELSE IF x.t \in {"num", "inf"} /\ IsMonomial([x EXCEPT !.t = "num"])
            THEN Inf(Sign(x), nd)
          ELSE Unsupported)
  ELSE IF y.t = "inf"
    THEN (IF x.t = "inf" THEN NaN(nd) ELSE IF x.t = "num" THEN Num(QZero, QZero, 1, nd)
          ELSE Unsupported)
  ELSE IF IsMonomial(y) THEN Mul(x, Recip(y))
  ELSE Unsupported

\* sqrt of a non-negative rational n/d: (sn / (sd*kd)) * sqrt(kn*kd).
QSqrt(q, nd) ==
  IF q[1] = 0 THEN Num(QZero, QZero, 1, nd)
  ELSE LET sn == SquarePart(q[1])
           sd == SquarePart(q[2])
           kn == SquareFree(q[1])
           kd == SquareFree(q[2])
       IN  Num(QZero, Q(sn, sd * kd), kn * kd, nd)

\* x ** e for a rational x and an exponent e = p/q >= 0 with q in {1, 2}.
\* A negative scalar base with a fractional exponent gives a complex number
\* in Python 3; numpy gives nan.
Pow(x, e) ==
  LET nd == x.nd \/ e.nd IN
  IF x.t = "raise" THEN x
  ELSE IF e.t = "raise" THEN e
  ELSE IF x.t = "nan" THEN NaN(nd)
  ELSE IF ~IsRational(e) \/ e.a[1] < 0 \/ e.a[2] > 2 THEN Unsupported
  ELSE IF x.t = "inf" /\ e.a[2] = 1
    THEN (IF e.a[1] = 0 THEN Num(QOne, QZero, 1, nd)
          ELSE Inf(IF e.a[1] % 2 = 0 THEN 1 ELSE Sign(x), nd))
  ELSE IF ~IsRational(x) THEN Unsupported
  ELSE IF e.a[2] = 1 THEN Num(QPow(x.a, e.a[1]), QZero, 1, nd)
  ELSE LET m == <<Abs(x.a[1]), x.a[2]>>
           r == Mul(Num(QPow(m, e.a[1] \div 2), QZero, 1, nd), QSqrt(m, nd))
       IN  IF x.a[1] >= 0 THEN r
           ELSE IF nd THEN NaN(nd)
           ELSE Complex(r)

\* x < y for scalar rationals (the comparisons the file makes on M).
Less(x, y) == IsRational(x) /\ IsRational(y) /\ QLess(x.a, y.a)

One == PyInt(1)
Two == PyInt(2)
Half == Float(<<1, 2>>)

\* ------------------------------------------------------- direct ratios
\* p2 / p1
rayleigh_pressure_ratio(M1, M2, gas) ==
  LET gamma == Float(gas.gamma)
      p2_p1 == Div(Add(One, Mul(gamma, Pow(M1, Two))),
                   Add(One, Mul(gamma, Pow(M2, Two))))
  IN  p2_p1

\* rayleigh_temperature_ratio with M1 left unsquared in the last divisor.
rayleigh_temperature_ratio_unsquared(M1, M2, gas) ==
  LET gamma == Float(gas.gamma)
  IN  Div(Mul(Pow(Div(Add(One, Mul(gamma, Pow(M1, Two))),
                      Add(One, Mul(gamma, Pow(M2, Two)))), Two),
              Pow(M2, Two)),
          M1)

\* T2 / T1
rayleigh_temperature_ratio(M1, M2, gas) ==
  LET gamma == Float(gas.gamma)
      T2_T1 == Div(Mul(Pow(Div(Add(One, Mul(gamma, Pow(M1, Two))),
                               Add(One, Mul(gamma, Pow(M2, Two)))), Two),
                       Pow(M2, Two)),
                   Pow(M1, Two))
  IN  T2_T1

\* rayleigh_density_ratio with the Mach-number factor upside down.
rayleigh_density_ratio_inverted(M1, M2, gas) ==
  LET gamma == Float(gas.gamma)
  IN  Div(Mul(Div(Add(One, Mul(gamma, Pow(M2, Two))),
                  Add(One, Mul(gamma, Pow(M1, Two)))),
              Pow(M2, Two)),
          Pow(M1, Two))

\* rho2 / rho1
rayleigh_density_ratio(M1, M2, gas) ==
  LET gamma == Float(gas.gamma)
      rho2_rho1 == Div(Mul(Div(Add(One, Mul(gamma, Pow(M2, Two))),
                               Add(One, Mul(gamma, Pow(M1, Two)))),
                           Pow(M1, Two)),
                       Pow(M2, Two))
  IN  rho2_rho1

\* rayleigh_stagnation_temperature_ratio computed on numpy values, whose
\* division by zero gives inf or nan instead of raising.
rayleigh_stagnation_temperature_ratio_numpy(M1, M2, gas) ==
  LET gamma == Float(gas.gamma)
      m1 == [M1 EXCEPT !.nd = TRUE]
  IN  Mul(Div(Mul(Pow(Div(Add(One, Mul(gamma, Pow(m1, Two))),
                          Add(One, Mul(gamma, Pow(M2, Two)))), Two),
                  Pow(M2, Two)),
              Pow(m1, Two)),
          Div(Add(One, Mul(Div(Sub(gamma, One), Two), Pow(M2, Two))),
              Add(One, Mul(Div(Sub(gamma, One), Two), Pow(m1, Two)))))

\* Tt2 / Tt1
rayleigh_stagnation_temperature_ratio(M1, M2, gas) ==
  LET gamma == Float(gas.gamma)
      Tt2_Tt1 ==
        Mul(Div(Mul(Pow(Div(Add(One, Mul(gamma, Pow(M1, Two))),
                            Add(One, Mul(gamma, Pow(M2, Two)))), Two),
                    Pow(M2, Two)),
                Pow(M1, Two)),
            Div(Add(One, Mul(Div(Sub(gamma, One), Two), Pow(M2, Two))),
                Add(One, Mul(Div(Sub(gamma, One), Two), Pow(M1, Two)))))
  IN  Tt2_Tt1

\* pt2 / pt1
rayleigh_stagnation_pressure_ratio(M1, M2, gas) ==
  LET gamma == Float(gas.gamma)
      pt2_pt1 ==
        Mul(Div(Add(One, Mul(gamma, Pow(M1, Two))),
                Add(One, Mul(gamma, Pow(M2, Two)))),
            Pow(Div(Add(One, Mul(Div(Sub(gamma, One), Two), Pow(M2, Two))),
                    Add(One, Mul(Div(Sub(gamma, One), Two), Pow(M1, Two)))),
                Div(gamma, Sub(gamma, One))))
  IN  pt2_pt1

\* --------------------------------------------------------- star ratios
\* rayleigh_pressure_star_ratio with M left unsquared.
rayleigh_pressure_star_ratio_unsquared(M, gas) ==
  LET gamma == Float(gas.gamma)
  IN  Div(Add(gamma, One), Add(One, Mul(gamma, M)))

\* p / p*
rayleigh_pressure_star_ratio(M, gas) ==
  LET gamma == Float(gas.gamma)
      p_pstar == Div(Add(gamma, One), Add(One, Mul(gamma, Pow(M, Two))))
  IN  p_pstar

\* T / T*
rayleigh_temperature_star_ratio(M, gas) ==
  LET gamma == Float(gas.gamma)
      T_Tstar == Div(Mul(Pow(M, Two), Pow(Add(One, gamma), Two)),
                     Pow(Add(One, Mul(gamma, Pow(M, Two))), Two))
  IN  T_Tstar

\* rho / rho*
rayleigh_density_star_ratio(M, gas) ==
  LET gamma == Float(gas.gamma)
      rho_rhostar == Div(Add(One, Mul(gamma, Pow(M, Two))),
                         Mul(Add(One, gamma), Pow(M, Two)))
  IN  rho_rhostar

\* pt / pt*
rayleigh_stagnation_pressure_star_ratio(M, gas) ==
  LET gamma == Float(gas.gamma)
      pt_ptstar ==
        Mul(Div(Add(One, gamma), Add(One, Mul(gamma, Pow(M, Two)))),
            Pow(Div(Add(One, Mul(Div(Sub(gamma, One), Two), Pow(M, Two))),
                    Div(Add(gamma, One), Two)),
                Div(gamma, Sub(gamma, One))))
  IN  pt_ptstar

\* Tt / Tt*
rayleigh_stagnation_temperature_star_ratio(M, gas) ==
  LET gamma == Float(gas.gamma)
      Tt_Ttstar ==
        Mul(Div(Mul(Mul(Two, Add(gamma, One)), Pow(M, Two)),
                Pow(Add(One, Mul(gamma, Pow(M, Two))), Two)),
            Add(One, Mul(Div(Sub(gamma, One), Two), Pow(M, Two))))
  IN  Tt_Ttstar

\* rayleigh_heat_flux with cp read once, when the module was loaded.
rayleigh_heat_flux_stale_cp(Tt1, Tt2, gas) ==
  Mul(Float(<<1005, 1>>), Sub(Tt2, Tt1))

\* q = cp * (Tt2 - Tt1)
rayleigh_heat_flux(Tt1, Tt2, gas) ==
  LET cp == Float(gas.cp)
      q == Mul(cp, Sub(Tt2, Tt1))
  IN  q

\* rayleigh_mach_from_pressure_ratio with the two pressures exchanged.
rayleigh_mach_from_pressure_ratio_swapped(M1, p1, p2, gas) ==
  LET gamma == Float(gas.gamma)
  IN  Pow(Div(Sub(Div(Mul(p2, Add(One, Mul(gamma, Pow(M1, Two)))), p1), One),
              gamma),
          Half)

\* M2 from M1 and the two pressures, in closed form
rayleigh_mach_from_pressure_ratio(M1, p1, p2, gas) ==
  LET gamma == Float(gas.gamma)
      M2 == Pow(Div(Sub(Div(Mul(p1, Add(One, Mul(gamma, Pow(M1, Two)))), p2), One),
                    gamma),
                Half)
  IN  M2

\* ----------------------------------------------------------- the solver
\* Largest Mach number drawn, in halves: Mach numbers are 0, 1/2, ..., MaxMachHalves/2.
MaxMachHalves == 4
\* Largest raw property value (a pressure or a temperature) drawn: 1..MaxProp.
MaxProp == 2

\* The points at which the solver may evaluate the residual and which it may
\* return: the Mach numbers drawn, and one negative value.
Candidates == {Q(h, 2) : h \in -1..MaxMachHalves}

\* fsolve's ier: 1 is convergence; 2 and above name the ways it gives up, which
\* fsolve treats alike.  The values drawn are 1..MaxIer.
MaxIer == 2
IerValues == 1..MaxIer

\* scipy.optimize.fsolve(func, x0, args) with full_output left False: the set of
\* results it may produce.  It evaluates func on a one-element ndarray, returns
\* an ndarray x whatever happened, and for ier in 2..5 only emits a
\* RuntimeWarning.  With ier = 1 the x returned is a root of func.
fsolve(func, x0) ==
  {[x |-> NdArray(c), ier |-> i, x0 |-> x0, func |-> func] :
     <<c, i>> \in {ci \in Candidates \X IerValues : ci[2] = 1 => IsZero(func[ci[1]])}}

\* The warnings a solver result emits.
Warnings(sol) == IF sol.ier = 1 THEN {} ELSE {"RuntimeWarning"}

\* InitialGuess with the sonic case folded into the subsonic one (M <= 1).
InitialGuess_sonic_as_subsonic(M) ==
  IF Less(One, M) THEN Float(<<3, 2>>) ELSE Float(<<1, 2>>)

\* The starting guess, chosen by the branch of the known Mach number.
InitialGuess(M) ==
  IF Less(M, One) THEN Float(<<1, 2>>)
  ELSE IF Less(One, M) THEN Float(<<3, 2>>)
  ELSE PyInt(1)

\* The residual functions handed to the solver.
zero_T(M2, M1, T2_T1, gas) ==
  Sub(rayleigh_temperature_ratio(M1, M2, gas), T2_T1)

\* zero_Tt with the known Mach number in the M2 position.
zero_Tt_swapped(M2, M1, Tt2_Tt1, gas) ==
  Sub(rayleigh_stagnation_temperature_ratio(M2, M1, gas), Tt2_Tt1)

zero_Tt(M2, M1, Tt2_Tt1, gas) ==
  Sub(rayleigh_stagnation_temperature_ratio(M1, M2, gas), Tt2_Tt1)

zero_pt(M2, M1, pt2_pt1, gas) ==
  Sub(rayleigh_stagnation_pressure_ratio(M1, M2, gas), pt2_pt1)

\* What a call ends in: the value returned (or the exception raised), the
\* solver calls it made and the warnings emitted.
Ended(ret, calls, warned) == [ret |-> ret, calls |-> calls, warned |-> warned]
Pure(ret) == Ended(ret, <<>>, {})

\* ---------------------------------------------------- Mach from a ratio
rayleigh_mach_from_temperature_ratio(M, T1, T2, gas) ==
  LET T2_T1 == Div(T2, T1)
      x0 == InitialGuess(M)
      func == [c \in Candidates |-> zero_T(NdArray(c), M, T2_T1, gas)]
  IN  IF T2_T1.t = "raise" THEN {Pure(T2_T1)}
      ELSE {Ended(sol.x, <<sol>>, Warnings(sol)) : sol \in fsolve(func, x0)}

rayleigh_mach_from_stagnation_temperature_ratio(M, Tt1, Tt2, gas) ==
  LET Tt2_Tt1 == Div(Tt2, Tt1)
      x0 == InitialGuess(M)
      func == [c \in Candidates |-> zero_Tt(NdArray(c), M, Tt2_Tt1, gas)]
  IN  IF Tt2_Tt1.t = "raise" THEN {Pure(Tt2_Tt1)}
      ELSE {Ended(sol.x, <<sol>>, Warnings(sol)) : sol \in fsolve(func, x0)}

rayleigh_mach_from_stagnation_pressure_ratio(M, pt1, pt2, gas) ==
  LET pt2_pt1 == Div(pt2, pt1)
      x0 == InitialGuess(M)
      func == [c \in Candidates |-> zero_pt(NdArray(c), M, pt2_pt1, gas)]
  IN  IF pt2_pt1.t = "raise" THEN {Pure(pt2_pt1)}
      ELSE {Ended(sol.x, <<sol>>, Warnings(sol)) : sol \in fsolve(func, x0)}

\* ------------------------------------------------------------ the inputs
\* Specific heats cp > 0 the caller may assign to air.
CpValues == {<<1000, 1>>, <<1005, 1>>}
\* gas_dynamics.fluids.fluid: a value with the fields gamma (> 1) and cp (> 0).
\* The caller's own fluids: a monatomic gas (gamma 5/3) and one with gamma 2.
Fluids == {[gamma |-> <<5, 3>>, cp |-> <<520, 1>>], [gamma |-> <<2, 1>>, cp |-> <<1000, 1>>]}
\* gas_dynamics.fluids.air, the default of every gas parameter.
DefaultAir == [gamma |-> <<7, 5>>, cp |-> <<1005, 1>>]

Machs == {Float(Q(h, 2)) : h \in 0..MaxMachHalves}
PropValues == {PyInt(n) : n \in 1..MaxProp}
\* Stagnation temperatures for the heat flux, the docstring's pair among them.
TtValues == {PyInt(280), Float(<<1079, 10>>), PyInt(250)}

\* The property values a second station can have: a value drawn, or the one
\* the direct relation gives for a Mach number drawn.
Station2(v1, ratios) ==
  PropValues \cup {Mul(v1, r) : r \in {x \in ratios : IsRational(x)}}

NoArg == PyInt(0)

VARIABLES
  air,          \* the module-level default fluid
  call,         \* the last call: [fn, a1, a2, a3, gas]
  outcome,      \* what it returned or raised
  solverCalls,  \* the fsolve calls it made, with their results
  warnings      \* the warnings it emitted

vars == <<air, call, outcome, solverCalls, warnings>>

NoCall == [fn |-> "", a1 |-> NoArg, a2 |-> NoArg, a3 |-> NoArg, gas |-> DefaultAir]

Init ==
  /\ air = DefaultAir
  /\ call = NoCall
  /\ outcome = NoArg
  /\ solverCalls = <<>>
  /\ warnings = {}

\* No call is in progress or waiting to be read: the caller may make one.
Idle == call = NoCall

\* The fluids a caller can pass: the default, or one of its own.
Gases == {air} \cup Fluids

Finish(fn, a1, a2, a3, gas, end) ==
  /\ call' = [fn |-> fn, a1 |-> a1, a2 |-> a2, a3 |-> a3, gas |-> gas]
  /\ outcome' = end.ret
  /\ solverCalls' = end.calls
  /\ warnings' = end.warned
  /\ UNCHANGED air

\* The caller has read what the last call ended in; nothing of it is kept.
Consume ==
  /\ ~Idle
  /\ call' = NoCall
  /\ outcome' = NoArg
  /\ solverCalls' = <<>>
  /\ warnings' = {}
  /\ UNCHANGED air

\* The caller assigns air.cp (the heat-flux docstring does: air.cp = 1000).
SetAirCp ==
  \E cp \in CpValues :
    /\ air' = [air EXCEPT !.cp = cp]
    /\ UNCHANGED <<call, outcome, solverCalls, warnings>>

PressureRatio ==
  /\ Idle
  /\ \E M1 \in Machs, M2 \in Machs, gas \in Gases :
    Finish("rayleigh_pressure_ratio", M1, M2, NoArg, gas,
           Pure(rayleigh_pressure_ratio(M1, M2, gas)))

TemperatureRatio ==
  /\ Idle
  /\ \E M1 \in Machs, M2 \in Machs, gas \in Gases :
    Finish("rayleigh_temperature_ratio", M1, M2, NoArg, gas,
           Pure(rayleigh_temperature_ratio(M1, M2, gas)))

DensityRatio ==
  /\ Idle
  /\ \E M1 \in Machs, M2 \in Machs, gas \in Gases :
    Finish("rayleigh_density_ratio", M1, M2, NoArg, gas,
           Pure(rayleigh_density_ratio(M1, M2, gas)))

StagnationTemperatureRatio ==
  /\ Idle
  /\ \E M1 \in Machs, M2 \in Machs, gas \in Gases :
    Finish("rayleigh_stagnation_temperature_ratio", M1, M2, NoArg, gas,
           Pure(rayleigh_stagnation_temperature_ratio(M1, M2, gas)))

StagnationPressureRatio ==
  /\ Idle
  /\ \E M1 \in Machs, M2 \in Machs, gas \in Gases :
    Finish("rayleigh_stagnation_pressure_ratio", M1, M2, NoArg, gas,
           Pure(rayleigh_stagnation_pressure_ratio(M1, M2, gas)))

PressureStarRatio ==
  /\ Idle
  /\ \E M \in Machs, gas \in Gases :
    Finish("rayleigh_pressure_star_ratio", M, NoArg, NoArg, gas,
           Pure(rayleigh_pressure_star_ratio(M, gas)))

TemperatureStarRatio ==
  /\ Idle
  /\ \E M \in Machs, gas \in Gases :
    Finish("rayleigh_temperature_star_ratio", M, NoArg, NoArg, gas,
           Pure(rayleigh_temperature_star_ratio(M, gas)))

DensityStarRatio ==
  /\ Idle
  /\ \E M \in Machs, gas \in Gases :
    Finish("rayleigh_density_star_ratio", M, NoArg, NoArg, gas,
           Pure(rayleigh_density_star_ratio(M, gas)))

StagnationPressureStarRatio ==
  /\ Idle
  /\ \E M \in Machs, gas \in Gases :
    Finish("rayleigh_stagnation_pressure_star_ratio", M, NoArg, NoArg, gas,
           Pure(rayleigh_stagnation_pressure_star_ratio(M, gas)))

StagnationTemperatureStarRatio ==
  /\ Idle
  /\ \E M \in Machs, gas \in Gases :
    Finish("rayleigh_stagnation_temperature_star_ratio", M, NoArg, NoArg, gas,
           Pure(rayleigh_stagnation_temperature_star_ratio(M, gas)))

HeatFlux ==
  /\ Idle
  /\ \E Tt1 \in TtValues, Tt2 \in TtValues, gas \in Gases :
    Finish("rayleigh_heat_flux", Tt1, Tt2, NoArg, gas,
           Pure(rayleigh_heat_flux(Tt1, Tt2, gas)))

MachFromPressureRatio ==
  /\ Idle
  /\ \E M1 \in Machs, p1 \in PropValues, gas \in Gases :
    \E p2 \in Station2(p1, {rayleigh_pressure_ratio(M1, m, gas) : m \in Machs}) :
      Finish("rayleigh_mach_from_pressure_ratio", M1, p1, p2, gas,
             Pure(rayleigh_mach_from_pressure_ratio(M1, p1, p2, gas)))

MachFromTemperatureRatio ==
  /\ Idle
  /\ \E M \in Machs, T1 \in PropValues, gas \in Gases :
    \E T2 \in Station2(T1, {rayleigh_temperature_ratio(M, m, gas) : m \in Machs}) :
      \E end \in rayleigh_mach_from_temperature_ratio(M, T1, T2, gas) :
        Finish("rayleigh_mach_from_temperature_ratio", M, T1, T2, gas, end)

MachFromStagnationTemperatureRatio ==
  /\ Idle
  /\ \E M \in Machs, Tt1 \in PropValues, gas \in Gases :
    \E Tt2 \in Station2(Tt1, {rayleigh_stagnation_temperature_ratio(M, m, gas) : m \in Machs}) :
      \E end \in rayleigh_mach_from_stagnation_temperature_ratio(M, Tt1, Tt2, gas) :
        Finish("rayleigh_mach_from_stagnation_temperature_ratio", M, Tt1, Tt2, gas, end)

MachFromStagnationPressureRatio ==
  /\ Idle
  /\ \E M \in Machs, pt1 \in PropValues, gas \in Gases :
    \E pt2 \in Station2(pt1, {rayleigh_stagnation_pressure_ratio(M, m, gas) : m \in Machs}) :
      \E end \in rayleigh_mach_from_stagnation_pressure_ratio(M, pt1, pt2, gas) :
        Finish("rayleigh_mach_from_stagnation_pressure_ratio", M, pt1, pt2, gas, end)

Next ==
  \/ SetAirCp
  \/ Consume
  \/ PressureRatio
  \/ TemperatureRatio
  \/ DensityRatio
  \/ StagnationTemperatureRatio
  \/ StagnationPressureRatio
  \/ PressureStarRatio
  \/ TemperatureStarRatio
  \/ DensityStarRatio
  \/ StagnationPressureStarRatio
  \/ StagnationTemperatureStarRatio
  \/ HeatFlux
  \/ MachFromPressureRatio
  \/ MachFromTemperatureRatio
  \/ MachFromStagnationTemperatureRatio
  \/ MachFromStagnationPressureRatio

Spec == Init /\ [][Next]_vars

\* -------------------------------------------------------------- claims
TwoMachFns ==
  {"rayleigh_pressure_ratio", "rayleigh_temperature_ratio", "rayleigh_density_ratio",
   "rayleigh_stagnation_temperature_ratio", "rayleigh_stagnation_pressure_ratio"}

StarFns ==
  {"rayleigh_pressure_star_ratio", "rayleigh_temperature_star_ratio",
   "rayleigh_density_star_ratio", "rayleigh_stagnation_temperature_star_ratio",
   "rayleigh_stagnation_pressure_star_ratio"}

RootSearchFns ==
  {"rayleigh_mach_from_temperature_ratio",
   "rayleigh_mach_from_stagnation_temperature_ratio",
   "rayleigh_mach_from_stagnation_pressure_ratio"}

\* The two-Mach ratio of the quantity that function fn (a two-Mach ratio, a
\* star ratio or a root-search inversion) is about.
DirectRatio(fn, M1, M2, gas) ==
  CASE fn \in {"rayleigh_pressure_ratio", "rayleigh_pressure_star_ratio"} ->
         rayleigh_pressure_ratio(M1, M2, gas)
    [] fn \in {"rayleigh_temperature_ratio", "rayleigh_temperature_star_ratio",
               "rayleigh_mach_from_temperature_ratio"} ->
         rayleigh_temperature_ratio(M1, M2, gas)
    [] fn \in {"rayleigh_density_ratio", "rayleigh_density_star_ratio"} ->
         rayleigh_density_ratio(M1, M2, gas)
    [] fn \in {"rayleigh_stagnation_temperature_ratio",
               "rayleigh_stagnation_temperature_star_ratio",
               "rayleigh_mach_from_stagnation_temperature_ratio"} ->
         rayleigh_stagnation_temperature_ratio(M1, M2, gas)
    [] fn \in {"rayleigh_stagnation_pressure_ratio",
               "rayleigh_stagnation_pressure_star_ratio",
               "rayleigh_mach_from_stagnation_pressure_ratio"} ->
         rayleigh_stagnation_pressure_ratio(M1, M2, gas)

Positive(x) == x.t = "num" /\ IsMonomial(x) /\ Sign(x) > 0
Negative(x) == x.t = "num" /\ IsMonomial(x) /\ Sign(x) < 0
\* The same real number, whether held as a Python float or a numpy one.
SameNumber(x, y) == x.t = "num" /\ y.t = "num" /\ x.a = y.a /\ x.b = y.b /\ x.k = y.k
Returned == outcome.t \in {"num", "inf", "nan", "complex"}
SameBranch(M1, M2) ==
  \/ Less(M1, One) /\ Less(M2, One)
  \/ Less(One, M1) /\ Less(One, M2)
  \/ M1 = One /\ M2 = One

\* The radicand ((p1*(1+gamma*M1^2))/p2 - 1)/gamma of a closed-form inversion call.
Radicand(c) ==
  Div(Sub(Div(Mul(c.a2, Add(One, Mul(Float(c.gas.gamma), Pow(c.a1, Two)))), c.a3), One),
      Float(c.gas.gamma))

\* C1: rayleigh_mach_from_pressure_ratio(M1, p1, p2, gas) raises a domain error
\* whenever the radicand ((p1*(1+gamma*M1^2))/p2 - 1)/gamma is negative; for such
\* inputs it never returns a value (in particular not a complex number or NaN).
C1_NegativeRadicandRaises ==
  (call.fn = "rayleigh_mach_from_pressure_ratio" /\ Negative(Radicand(call)))
    => (outcome.t = "raise" /\ ~Returned)

\* C2: in each root-search inversion, whenever the solver does not converge the
\* call ends in a convergence failure visible to the caller, distinct from a
\* domain error; it never returns the solver's last iterate as a Mach number.
C2_NonConvergenceSurfaced ==
  (call.fn \in RootSearchFns
     /\ \E i \in DOMAIN solverCalls : solverCalls[i].ier # 1)
    => (outcome.t = "raise" /\ outcome.exc # "ZeroDivisionError" /\ ~Returned)

\* C3: for every known Mach number M, each root-search inversion calls the
\* solver exactly once, with an initial guess fixed by M's branch alone: 0.5 if
\* M < 1, 1.5 if M > 1, 1.0 if M == 1, whatever the property values and the fluid.
C3_GuessByBranch ==
  call.fn \in RootSearchFns =>
    /\ Len(solverCalls) = 1
    /\ QLess(call.a1.a, QOne) => solverCalls[1].x0 = Float(<<1, 2>>)
    /\ QLess(QOne, call.a1.a) => solverCalls[1].x0 = Float(<<3, 2>>)
    /\ call.a1.a = QOne => solverCalls[1].x0 = Float(<<1, 1>>)

\* A stagnation-pressure inversion from the sonic state was seeded at 1.0.
C3_Witness ==
  /\ call.fn = "rayleigh_mach_from_stagnation_pressure_ratio"
  /\ call.a1 = One
  /\ Len(solverCalls) = 1
  /\ solverCalls[1].x0 = One

\* C4 as stated: for every valid M > 0 and fluid, each two-Mach ratio called
\* as (M1 = M, M2 = 1.0) equals the corresponding star ratio at M.
C4_StarIsRatioToSonic ==
  (call.fn \in StarFns /\ Positive(call.a1))
    => outcome = DirectRatio(call.fn, call.a1, One, call.gas)

\* C4 as amended: for every valid M > 0 and fluid, each two-Mach ratio called
\* as (M1 = 1.0, M2 = M) equals the corresponding star ratio at M.
C4_StarIsRatioFromSonic ==
  (call.fn \in StarFns /\ Positive(call.a1))
    => outcome = DirectRatio(call.fn, One, call.a1, call.gas)

\* A stagnation-pressure star ratio was taken at M = 2 and came out a number.
C4_Witness ==
  /\ call.fn = "rayleigh_stagnation_pressure_star_ratio"
  /\ call.a1 = Two
  /\ outcome.t = "num"
  /\ outcome # One

\* C5: for all M1 > 0, M2 > 0 and every fluid, each of the five two-Mach ratio
\* functions satisfies ratio(M1, M2, gas) * ratio(M2, M1, gas) == 1.
C5_Reciprocal ==
  (call.fn \in TwoMachFns /\ Positive(call.a1) /\ Positive(call.a2))
    => Mul(outcome, DirectRatio(call.fn, call.a2, call.a1, call.gas)) = One

\* A temperature ratio was taken between two different positive Mach numbers.
C5_Witness ==
  /\ call.fn = "rayleigh_temperature_ratio"
  /\ call.a1 = Half
  /\ call.a2 = Two
  /\ outcome.t = "num"
  /\ outcome # One

\* C6: for all M1 # 0, M2 on the same branch as M1, any p1 > 0 and any fluid,
\* with p2 = p1 * rayleigh_pressure_ratio(M1, M2, gas), the call
\* rayleigh_mach_from_pressure_ratio(M1, p1, p2, gas) returns M2.
C6_PressureRoundTrip ==
  call.fn = "rayleigh_mach_from_pressure_ratio" =>
    \A M2 \in Machs :
      (/\ ~IsZero(call.a1)
       /\ SameBranch(call.a1, M2)
       /\ Positive(call.a2)
       /\ call.a3 = Mul(call.a2, rayleigh_pressure_ratio(call.a1, M2, call.gas)))
        => outcome = M2

\* The inversion recovered M2 = 2 from M1 = 3/2 and the pressures they give.
C6_Witness ==
  /\ call.fn = "rayleigh_mach_from_pressure_ratio"
  /\ call.a1 = Float(<<3, 2>>)
  /\ call.a3 = Mul(call.a2, rayleigh_pressure_ratio(call.a1, Two, call.gas))
  /\ outcome = Two

\* C7: rayleigh_heat_flux(Tt1, Tt2, gas) returns gas.cp * (Tt2 - Tt1) with the
\* cp the fluid holds at the time of the call; for cp > 0 the result is positive
\* exactly when Tt2 > Tt1, negative exactly when Tt2 < Tt1, zero when Tt2 == Tt1.
C7_HeatFlux ==
  call.fn = "rayleigh_heat_flux" =>
    /\ outcome.t = "num"
    /\ outcome.b = QZero
    /\ outcome.a = QMul(call.gas.cp, QAdd(call.a2.a, QNeg(call.a1.a)))
    /\ QSign(call.gas.cp) > 0 =>
         /\ Positive(outcome) <=> QLess(call.a1.a, call.a2.a)
         /\ Negative(outcome) <=> QLess(call.a2.a, call.a1.a)
         /\ call.a1 = call.a2 => IsZero(outcome)

\* The docstring's call, after air.cp = 1000: heat leaves and q = -172100.
C7_Witness ==
  /\ call.fn = "rayleigh_heat_flux"
  /\ call.gas = air
  /\ air.cp = <<1000, 1>>
  /\ call.a1 = PyInt(280)
  /\ call.a2 = Float(<<1079, 10>>)
  /\ outcome = PyInt(-172100)

C9_ResidualAndRoot ==
  call.fn \in RootSearchFns =>
    /\ Len(solverCalls) = 1
    /\ \A c \in Candidates :
         LET direct == DirectRatio(call.fn, call.a1, NdArray(c), call.gas)
             target == Div(call.a3, call.a2)
         IN  /\ solverCalls[1].func[c] = Sub(direct, target)
             /\ IsZero(solverCalls[1].func[c]) <=> SameNumber(direct, target)
    /\ outcome = solverCalls[1].x

\* A stagnation-temperature inversion converged on a root other than the
\* known Mach number, and returned it.
C9_Witness ==
  /\ call.fn = "rayleigh_mach_from_stagnation_temperature_ratio"
  /\ Len(solverCalls) = 1
  /\ solverCalls[1].ier = 1
  /\ ~SameNumber(outcome, call.a1)
  /\ call.a3 # call.a2
  /\ outcome = solverCalls[1].x

\* C10: for all M1 > 0, M2 > 0 and every fluid, rayleigh_density_ratio(M1, M2,
\* gas) * rayleigh_temperature_ratio(M1, M2, gas) == rayleigh_pressure_ratio(M1,
\* M2, gas).
C10_IdealGas ==
  (call.fn = "rayleigh_density_ratio" /\ Positive(call.a1) /\ Positive(call.a2))
    => Mul(outcome, rayleigh_temperature_ratio(call.a1, call.a2, call.gas))
         = rayleigh_pressure_ratio(call.a1, call.a2, call.gas)

\* A density ratio was taken between M1 = 1/2 and M2 = 3/2.
C10_Witness ==
  /\ call.fn = "rayleigh_density_ratio"
  /\ call.a1 = Half
  /\ call.a2 = Float(<<3, 2>>)
  /\ outcome.t = "num"

\* Every value the calls produce lies inside the modelled arithmetic.
ArithmeticCovered ==
  /\ outcome.t # "unsupported"
  /\ \A i \in DOMAIN solverCalls :
       \A c \in Candidates : solverCalls[i].func[c].t # "unsupported"
====
